---- MODULE Spec2Model ----
(***************************************************************************)
(* QuickCart food ordering agent: the cart engine, the order engine and    *)
(* the order history document shared by the voice sessions and by the      *)
(* operator's update_order_status script.                                  *)
(*                                                                         *)
(* Amounts are in mills (1/1000 of a dollar) so that round(total, 2) is a  *)
(* real rounding.  Time is in clock ticks; the order id keeps whole        *)
(* seconds only, as strftime('%Y%m%d-%H%M%S') does.                        *)
(***************************************************************************)
EXTENDS Integers, Sequences, FiniteSets, TLC

VARIABLES
    cart,      \* session -> the session's cart: lines in dict insertion order
    doc,       \* the order history document on disk
    now,       \* the wall clock, in ticks
    ret,       \* what the last handler returned
    pc,        \* process -> its position inside a history read-modify-write
    loc,       \* process -> the locals of its handler while it is inside one
    acked,     \* the successes announced so far by writers that ran in steps
    CATALOG    \* the catalog as load_catalog returned it when the agent started

vars == <<cart, doc, now, ret, pc, loc, acked, CATALOG>>

----------------------------------------------------------------------------
(* Bounds of the model *)

MaxQty == 2          \* largest quantity argument, largest line quantity
MaxNeg == 1          \* quantity arguments go down to -MaxNeg
MaxOrders == 2       \* placements stop once the document holds this many
MaxClock == 2        \* the clock stops ticking here
MaxUnits == 2        \* units in the cart of a session that places orders
MaxUpdates == 1      \* status updates run in steps
MaxQueryLen == 2     \* longest search query

TicksPerSecond == 2  \* the order id has a resolution of one second

Sessions == {1, 2}
Operator == 0        \* the process running update_order_status.py
Procs == Sessions \cup {Operator}

QtyArgs == (0 - MaxNeg)..MaxQty

----------------------------------------------------------------------------
(* Optional arguments: <<>> is None, <<x>> is the value x *)

None == <<>>
Some(x) == <<x>>
IsNone(o) == o = <<>>

----------------------------------------------------------------------------
(* The catalog: the document of CATALOG_FILE and what load_catalog makes of *)
(* it.  categories maps a category name to its list of items and is kept as *)
(* the sequence of its entries in the order of the document; recipes maps a *)
(* recipe key to the recipe.                                                *)

CatalogDocument ==
    [categories |-> <<
        [name |-> "groceries",
         items |-> << [id |-> "g001", name |-> "Whole Wheat Bread",
                       price |-> 2500, size |-> "1 loaf",
                       brand |-> "Nature's Own",
                       tags |-> <<"bakery", "vegan">>],
                      [id |-> "g002", name |-> "Eggs",
                       price |-> 3490, size |-> "12 ct",
                       tags |-> <<"protein">>],
                      [id |-> "g003", name |-> "Peanut Butter",
                       price |-> 4290, size |-> "16 oz",
                       brand |-> "Jif", tags |-> <<"spread">>] >>],
        [name |-> "snacks",
         items |-> << [id |-> "s001", name |-> "Potato Chips",
                       price |-> 1990, size |-> "8 oz",
                       brand |-> "Pringles"] >>],
        [name |-> "beverages",
         items |-> << [id |-> "b001", name |-> "Orange Juice",
                       price |-> 3990, size |-> "1 L",
                       tags |-> <<"breakfast">>],
                      [id |-> "b002", name |-> "Milk",
                       price |-> 2990, size |-> "1 gal",
                       brand |-> "Organic Valley",
                       tags |-> <<"dairy", "breakfast">>] >>] >>,
     recipes |->
        [healthy_breakfast |->
            [name |-> "Healthy Breakfast",
             description |-> "Bread and juice",
             items |-> <<"g001", "b001">>],
         toast |->
            [name |-> "Toast",
             description |-> "Two loaves and a spread that is out of stock",
             items |-> <<"g001", "x999", "g001">>]]]

\* The empty dict
EmptyDict == <<>>

\* load_catalog: the parsed document, or {} when reading or parsing raises
load_catalog(readable) == IF readable THEN CatalogDocument ELSE EmptyDict

\* d.get(key, default)
Get(d, key, default) == IF key \in DOMAIN d THEN d[key] ELSE default

\* CATALOG.get("categories", {}).items()
Categories == Get(CATALOG, "categories", <<>>)

ItemIdArgs == {"g001", "b001", "x999"}
RecipeKeyArgs == {"healthy_breakfast", "toast", "brunch"}

\* item.get("brand", "")
GetBrand(item) == Get(item, "brand", "")

\* The nested loop over categories and items with its two breaks: the first
\* item with this id, with its category; found = FALSE when there is none.
RECURSIVE FindInItems(_, _, _)
FindInItems(items, i, item_id) ==
    IF i > Len(items) THEN None
    ELSE IF items[i].id = item_id THEN Some(items[i])
    ELSE FindInItems(items, i + 1, item_id)

RECURSIVE FindInCategories(_, _, _)
FindInCategories(cats, c, item_id) ==
    IF c > Len(cats) THEN [found |-> FALSE]
    ELSE LET hit == FindInItems(cats[c].items, 1, item_id) IN
         IF ~IsNone(hit)
         THEN [found |-> TRUE, item |-> hit[1], category |-> cats[c].name]
         ELSE FindInCategories(cats, c + 1, item_id)

FindItem(item_id) == FindInCategories(Categories, 1, item_id)

----------------------------------------------------------------------------
(* The cart: a dict item_id -> line, kept as the sequence of its lines in  *)
(* insertion order                                                         *)

CartIds(c) == {c[i].id : i \in 1..Len(c)}
InCart(c, item_id) == item_id \in CartIds(c)
LineOf(c, item_id) == c[CHOOSE i \in 1..Len(c) : c[i].id = item_id]

\* cart.pop(item_id)
CartPop(c, item_id) == SelectSeq(c, LAMBDA l : l.id # item_id)

\* The quantity set on every line of the cart
CartSetQtyOfAll(c, item_id, q) ==
    [i \in 1..Len(c) |-> [c[i] EXCEPT !.quantity = q]]

\* cart[item_id]["quantity"] = q
CartSetQty(c, item_id, q) ==
    [i \in 1..Len(c) |->
        IF c[i].id = item_id THEN [c[i] EXCEPT !.quantity = q] ELSE c[i]]

\* cart[item_id] = {"item": ..., "category": ..., "quantity": ...}, new key
CartInsert(c, item_id, item, category, q) ==
    Append(c, [id |-> item_id, item |-> item, category |-> category,
               quantity |-> q])

\* add_to_cart storing the requested quantity instead of adding it
CartAddOverwrites(c, item_id, item, category, q) ==
    IF InCart(c, item_id)
    THEN CartSetQty(c, item_id, q)
    ELSE CartInsert(c, item_id, item, category, q)

\* lines 172-180 of add_to_cart
CartAdd(c, item_id, item, category, q) ==
    IF InCart(c, item_id)
    THEN CartSetQty(c, item_id, LineOf(c, item_id).quantity + q)
    ELSE CartInsert(c, item_id, item, category, q)

\* update_quantity adding the quantity to the one the line has
CartUpdateAdds(c, item_id, q) ==
    IF q <= 0 THEN CartPop(c, item_id)
    ELSE CartSetQty(c, item_id, LineOf(c, item_id).quantity + q)

\* update_quantity removing the line for negative quantities only
CartUpdateKeepsZero(c, item_id, q) ==
    IF q < 0 THEN CartPop(c, item_id) ELSE CartSetQty(c, item_id, q)

\* lines 219-232 of update_quantity, on a cart that holds item_id
CartUpdate(c, item_id, q) ==
    IF q <= 0 THEN CartPop(c, item_id) ELSE CartSetQty(c, item_id, q)

QtyInBounds(c) ==
    \A i \in 1..Len(c) : c[i].quantity \in (0 - MaxNeg)..MaxQty

----------------------------------------------------------------------------
(* What a handler returns *)

Ret(op, who, kind, order_id, status) ==
    [op |-> op, who |-> who, kind |-> kind, order_id |-> order_id,
     status |-> status]

NoRet == Ret("none", Operator, "none", None, "")

----------------------------------------------------------------------------
(* The cart engine.  Each handler is first the function it computes, from   *)
(* the session's cart and the arguments to the cart it leaves and the kind  *)
(* of answer it returns, and then the step of the session that runs it.     *)

Outcome(c, kind) == [cart |-> c, kind |-> kind]

\* add_to_cart putting a line in the cart for an id the catalog does not have
AddToCartUnknownItem(c, item_id, quantity) ==
    LET f == FindItem(item_id) IN
    IF ~f.found
    THEN Outcome(CartAdd(c, item_id, [id |-> item_id, name |-> item_id,
                                      price |-> 0, size |-> ""],
                         "", quantity),
                 "ItemNotFound")
    ELSE Outcome(CartAdd(c, item_id, f.item, f.category, quantity), "ok")

\* add_to_cart, lines 155-184
AddToCart(c, item_id, quantity) ==
    LET f == FindItem(item_id) IN
    IF ~f.found
    THEN Outcome(c, "ItemNotFound")
    ELSE Outcome(CartAdd(c, item_id, f.item, f.category, quantity), "ok")

\* remove_from_cart, lines 197-204
RemoveFromCart(c, item_id) ==
    IF InCart(c, item_id)
    THEN Outcome(CartPop(c, item_id), "removed")
    ELSE Outcome(c, "ItemNotInCart")

\* update_quantity, lines 219-232
UpdateQuantity(c, item_id, quantity) ==
    IF InCart(c, item_id)
    THEN Outcome(CartUpdate(c, item_id, quantity),
                 IF quantity <= 0 THEN "removed" ELSE "updated")
    ELSE Outcome(c, "ItemNotInCart")

add_to_cart(s, item_id, quantity) ==
    LET r == AddToCart(cart[s], item_id, quantity) IN
    /\ pc[s] = "idle"
    /\ QtyInBounds(r.cart)
    /\ cart' = [cart EXCEPT ![s] = r.cart]
    /\ ret' = Ret("add_to_cart", s, r.kind, None, "")
    /\ UNCHANGED <<doc, now, pc, loc, acked, CATALOG>>

remove_from_cart(s, item_id) ==
    LET r == RemoveFromCart(cart[s], item_id) IN
    /\ pc[s] = "idle"
    /\ cart' = [cart EXCEPT ![s] = r.cart]
    /\ ret' = Ret("remove_from_cart", s, r.kind, None, "")
    /\ UNCHANGED <<doc, now, pc, loc, acked, CATALOG>>

update_quantity(s, item_id, quantity) ==
    LET r == UpdateQuantity(cart[s], item_id, quantity) IN
    /\ pc[s] = "idle"
    /\ cart' = [cart EXCEPT ![s] = r.cart]
    /\ ret' = Ret("update_quantity", s, r.kind, None, "")
    /\ UNCHANGED <<doc, now, pc, loc, acked, CATALOG>>

\* f"{x:.2f}" on an amount in mills: the amount to the nearest cent
Format2(x) ==
    LET q == x \div 10
        r == x % 10 IN
    10 * (IF r > 5 \/ (r = 5 /\ q % 2 = 1) THEN q + 1 ELSE q)

\* total += subtotal over the lines of the cart, lines 249-254
RECURSIVE ViewTotal(_, _)
ViewTotal(c, i) ==
    IF i > Len(c) THEN 0
    ELSE c[i].item.price * c[i].quantity + ViewTotal(c, i + 1)

\* view_cart adding up the unit prices, whatever the quantities
ViewCartUnitPrices(c) ==
    LET RECURSIVE Prices(_)
        Prices(i) == IF i > Len(c) THEN 0 ELSE c[i].item.price + Prices(i + 1)
    IN  IF c = <<>>
        THEN [kind |-> "empty", total |-> 0, lines |-> 0]
        ELSE [kind |-> "cart", total |-> Format2(Prices(1)), lines |-> Len(c)]

\* view_cart, lines 241-259: the kind of answer, the total it reports and the
\* number of lines it lists
ViewCart(c) ==
    IF c = <<>>
    THEN [kind |-> "empty", total |-> 0, lines |-> 0]
    ELSE [kind |-> "cart", total |-> Format2(ViewTotal(c, 1)),
          lines |-> Len(c)]

\* view_cart emptying the cart it has read
view_cart_clears(s) ==
    LET r == ViewCart(cart[s]) IN
    /\ pc[s] = "idle"
    /\ cart' = [cart EXCEPT ![s] = <<>>]
    /\ ret' = Ret("view_cart", s, r.kind, None, "")
                  @@ [total |-> r.total, lines |-> r.lines]
    /\ UNCHANGED <<doc, now, pc, loc, acked, CATALOG>>

view_cart(s) ==
    LET r == ViewCart(cart[s]) IN
    /\ pc[s] = "idle"
    /\ ret' = Ret("view_cart", s, r.kind, None, "")
                  @@ [total |-> r.total, lines |-> r.lines]
    /\ UNCHANGED <<cart, doc, now, pc, loc, acked, CATALOG>>

\* The name of the first category whose list holds the item, lines 298-302;
\* None when no list holds it
RECURSIVE CategoryOf(_, _, _)
CategoryOf(cats, c, item) ==
    IF c > Len(cats) THEN None
    ELSE IF \E i \in 1..Len(cats[c].items) : cats[c].items[i] = item
    THEN cats[c].name
    ELSE CategoryOf(cats, c + 1, item)

\* A recipe item stored with quantity 1 even when the cart holds the item
RecipeAddResets(c, item_id, item) ==
    IF InCart(c, item_id)
    THEN CartSetQty(c, item_id, 1)
    ELSE CartInsert(c, item_id, item, CategoryOf(Categories, 1, item), 1)

\* One resolved item of a recipe added to the cart, lines 294-310
RecipeAdd(c, item_id, item) ==
    IF InCart(c, item_id)
    THEN CartSetQty(c, item_id, LineOf(c, item_id).quantity + 1)
    ELSE CartInsert(c, item_id, item, CategoryOf(Categories, 1, item), 1)

\* The loop over the recipe's item ids, lines 281-311: the cart it leaves and
\* the names it has collected
RECURSIVE AddRecipeLoop(_, _, _, _)
AddRecipeLoop(c, item_ids, i, added_items) ==
    IF i > Len(item_ids) THEN [cart |-> c, added |-> added_items]
    ELSE LET f == FindItem(item_ids[i]) IN
         IF f.found
         THEN AddRecipeLoop(RecipeAdd(c, item_ids[i], f.item), item_ids, i + 1,
                            Append(added_items, f.item.name))
         ELSE AddRecipeLoop(c, item_ids, i + 1, added_items)

\* add_recipe_items, lines 272-316
AddRecipeItems(c, recipe_key) ==
    LET recipes == Get(CATALOG, "recipes", EmptyDict) IN
    IF recipe_key \notin DOMAIN recipes
    THEN [cart |-> c, kind |-> "RecipeNotFound", added |-> <<>>]
    ELSE LET r == AddRecipeLoop(c, recipes[recipe_key].items, 1, <<>>) IN
         [cart |-> r.cart,
          kind |-> IF r.added # <<>> THEN "added" ELSE "none_added",
          added |-> r.added]

add_recipe_items(s, recipe_key) ==
    LET r == AddRecipeItems(cart[s], recipe_key) IN
    /\ pc[s] = "idle"
    /\ QtyInBounds(r.cart)
    /\ cart' = [cart EXCEPT ![s] = r.cart]
    /\ ret' = Ret("add_recipe_items", s, r.kind, None, "")
                  @@ [added |-> r.added]
    /\ UNCHANGED <<doc, now, pc, loc, acked, CATALOG>>

----------------------------------------------------------------------------
(* Search.  A text is the sequence of its characters. *)

\* The characters of the strings of the catalog
Chars(str) ==
    CASE str = "Whole Wheat Bread" ->
            <<"W", "h", "o", "l", "e", " ", "W", "h", "e", "a", "t",
              " ", "B", "r", "e", "a", "d">>
      [] str = "Eggs" ->
            <<"E", "g", "g", "s">>
      [] str = "Peanut Butter" ->
            <<"P", "e", "a", "n", "u", "t", " ", "B", "u", "t", "t",
              "e", "r">>
      [] str = "Potato Chips" ->
            <<"P", "o", "t", "a", "t", "o", " ", "C", "h", "i", "p",
              "s">>
      [] str = "Orange Juice" ->
            <<"O", "r", "a", "n", "g", "e", " ", "J", "u", "i", "c",
              "e">>
      [] str = "Milk" ->
            <<"M", "i", "l", "k">>
      [] str = "Nature's Own" ->
            <<"N", "a", "t", "u", "r", "e", "'", "s", " ", "O", "w",
              "n">>
      [] str = "Jif" ->
            <<"J", "i", "f">>
      [] str = "Pringles" ->
            <<"P", "r", "i", "n", "g", "l", "e", "s">>
      [] str = "Organic Valley" ->
            <<"O", "r", "g", "a", "n", "i", "c", " ", "V", "a", "l",
              "l", "e", "y">>
      [] str = "bakery" ->
            <<"b", "a", "k", "e", "r", "y">>
      [] str = "vegan" ->
            <<"v", "e", "g", "a", "n">>
      [] str = "protein" ->
            <<"p", "r", "o", "t", "e", "i", "n">>
      [] str = "spread" ->
            <<"s", "p", "r", "e", "a", "d">>
      [] str = "breakfast" ->
            <<"b", "r", "e", "a", "k", "f", "a", "s", "t">>
      [] str = "dairy" ->
            <<"d", "a", "i", "r", "y">>
      [] str = "" -> <<>>

\* str.lower(), one character
Lower(ch) ==
    CASE ch = "B" -> "b"
      [] ch = "C" -> "c"
      [] ch = "E" -> "e"
      [] ch = "J" -> "j"
      [] ch = "M" -> "m"
      [] ch = "N" -> "n"
      [] ch = "O" -> "o"
      [] ch = "P" -> "p"
      [] ch = "V" -> "v"
      [] ch = "W" -> "w"
      [] OTHER -> ch

\* str.lower()
ToLower(text) == [i \in 1..Len(text) |-> Lower(text[i])]

\* needle in haystack, for two strings
Contains(needle, haystack) ==
    \E i \in 0..(Len(haystack) - Len(needle)) :
        SubSeq(haystack, i + 1, i + Len(needle)) = needle

\* The query used as it was typed
QueryAsTyped(query) == query

\* query_lower = query.lower(), line 114
QueryLower(query) == ToLower(query)

\* The test of lines 121-123 on one item
ItemMatches(item, query_lower) ==
    LET tags == Get(item, "tags", <<>>) IN
    \/ Contains(query_lower, ToLower(Chars(item.name)))
    \/ Contains(query_lower, ToLower(Chars(Get(item, "brand", ""))))
    \/ \E t \in 1..Len(tags) : Contains(query_lower, ToLower(Chars(tags[t])))

\* The entry appended to results, lines 124-131
SearchResult(item, category_name) ==
    [id |-> item.id, name |-> item.name, category |-> category_name,
     price |-> item.price, size |-> item.size,
     brand |-> Get(item, "brand", "")]

\* The loops of lines 118-131 from category c, item i on
RECURSIVE SearchFrom(_, _, _, _)
SearchFrom(cats, c, i, query_lower) ==
    IF c > Len(cats) THEN <<>>
    ELSE IF i > Len(cats[c].items) THEN SearchFrom(cats, c + 1, 1, query_lower)
    ELSE (IF ItemMatches(cats[c].items[i], query_lower)
          THEN <<SearchResult(cats[c].items[i], cats[c].name)>>
          ELSE <<>>)
         \o SearchFrom(cats, c, i + 1, query_lower)

\* results[:5], line 135
MaxShown == 5

\* search_items, lines 114-139: the kind of answer, the number of items it
\* says it found and the items it lists
SearchItems(query) ==
    LET results == SearchFrom(Categories, 1, 1, QueryLower(query)) IN
    IF results # <<>>
    THEN [kind |-> "found", count |-> Len(results),
          shown |-> SubSeq(results, 1,
                           IF Len(results) < MaxShown THEN Len(results)
                           ELSE MaxShown)]
    ELSE [kind |-> "none", count |-> 0, shown |-> <<>>]

search_items(s, query) ==
    LET r == SearchItems(query) IN
    /\ pc[s] = "idle"
    /\ ret' = Ret("search_items", s, r.kind, None, "")
                  @@ [query |-> query, count |-> r.count, shown |-> r.shown]
    /\ UNCHANGED <<cart, doc, now, pc, loc, acked, CATALOG>>

----------------------------------------------------------------------------
(* The order history document *)

STATUSES == <<"received", "confirmed", "being_prepared", "out_for_delivery",
              "delivered">>

StatusSet == {STATUSES[i] : i \in 1..Len(STATUSES)}

Document(exists, valid, orders) ==
    [exists |-> exists, valid |-> valid, orders |-> orders]

\* load_order_history: [] when the file is absent, and [] again when reading
\* or parsing it raises
load_order_history(d) == IF d.exists /\ d.valid THEN d.orders ELSE <<>>

\* open(ORDER_HISTORY_FILE, "w"): the file exists and is empty from here on
Truncated == Document(TRUE, FALSE, <<>>)

\* json.dump(order_history, f) run to its end
Written(order_history) == Document(TRUE, TRUE, order_history)

\* What json.dump leaves when the file is no longer empty because another
\* writer wrote into it since this one opened it: the bytes of this list over
\* the bytes of that one, which parse as this list or do not parse
Overwritten(d, order_history) ==
    IF d = Truncated THEN {Written(order_history)}
    ELSE {Written(order_history), Truncated}

\* What a save leaves on disk.  "ok": the list is written.  "open_fails": open
\* raises and the file is as it was.  "write_fails": open has truncated the
\* file and the write raises, leaving an incomplete document.
SaveOutcomes == {"ok", "open_fails", "write_fails"}

Saved(d, order_history, outcome) ==
    CASE outcome = "ok" -> Written(order_history)
      [] outcome = "open_fails" -> d
      [] outcome = "write_fails" -> Truncated

----------------------------------------------------------------------------
(* The order engine *)

\* round(x, 2) on an amount in mills: to the nearest cent, ties to even
Round2(x) ==
    LET q == x \div 10
        r == x % 10 IN
    10 * (IF r > 5 \/ (r = 5 /\ q % 2 = 1) THEN q + 1 ELSE q)

\* f"ORD-{datetime.now().strftime('%Y%m%d-%H%M%S')}": the time cut to seconds
OrderId(t) == t \div TicksPerSecond

\* An entry of order_items whose subtotal forgets the quantity
OrderItemUnitSubtotal(line) ==
    [id |-> line.id,
     name |-> line.item.name,
     brand |-> GetBrand(line.item),
     category |-> line.category,
     price |-> line.item.price,
     quantity |-> line.quantity,
     subtotal |-> line.item.price]

\* One entry of order_items, lines 341-355
OrderItem(line) ==
    [id |-> line.id,
     name |-> line.item.name,
     brand |-> GetBrand(line.item),
     category |-> line.category,
     price |-> line.item.price,
     quantity |-> line.quantity,
     subtotal |-> line.item.price * line.quantity]

OrderItems(c) == [i \in 1..Len(c) |-> OrderItem(c[i])]

\* total += subtotal over the cart, lines 337-345
RECURSIVE SumSubtotals(_, _)
SumSubtotals(items, i) ==
    IF i > Len(items) THEN 0
    ELSE items[i].subtotal + SumSubtotals(items, i + 1)

\* x or default, for an optional string
OrDefault(o, default) == IF IsNone(o) \/ o = Some("") THEN default ELSE o[1]

\* The order object, lines 358-366
NewOrder(c, customer_name, delivery_notes, t) ==
    [order_id |-> OrderId(t),
     customer_name |-> OrDefault(customer_name, "Anonymous Customer"),
     timestamp |-> t,
     items |-> OrderItems(c),
     total |-> Round2(SumSubtotals(OrderItems(c), 1)),
     delivery_notes |-> OrDefault(delivery_notes, ""),
     status |-> "received"]

\* Index of the first order with this id, 0 when there is none
RECURSIVE FirstMatch(_, _, _)
FirstMatch(order_history, i, order_id) ==
    IF i > Len(order_history) THEN 0
    ELSE IF order_history[i].order_id = order_id THEN i
    ELSE FirstMatch(order_history, i + 1, order_id)

\* place_order without the empty-cart check of lines 333-334
PlaceOrderNoEmptyCheck(c, d, t, customer_name, delivery_notes, outcome) ==
    LET order == NewOrder(c, customer_name, delivery_notes, t)
        order_history == Append(load_order_history(d), order) IN
    IF outcome = "ok"
    THEN [cart |-> <<>>, doc |-> Saved(d, order_history, outcome),
          kind |-> "placed", order_id |-> Some(order.order_id)]
    ELSE [cart |-> c, doc |-> Saved(d, order_history, outcome),
          kind |-> "PersistenceFailure", order_id |-> None]

\* place_order without the clearing of the cart of line 377
PlaceOrderKeepsCart(c, d, t, customer_name, delivery_notes, outcome) ==
    LET order == NewOrder(c, customer_name, delivery_notes, t)
        order_history == Append(load_order_history(d), order) IN
    IF c = <<>>
    THEN [cart |-> c, doc |-> d, kind |-> "EmptyCart", order_id |-> None]
    ELSE IF outcome = "ok"
    THEN [cart |-> c, doc |-> Saved(d, order_history, outcome),
          kind |-> "placed", order_id |-> Some(order.order_id)]
    ELSE [cart |-> c, doc |-> Saved(d, order_history, outcome),
          kind |-> "PersistenceFailure", order_id |-> None]

\* place_order, lines 331-380: the cart and the document it leaves, the kind
\* of answer, and the order id it announces
PlaceOrder(c, d, t, customer_name, delivery_notes, outcome) ==
    LET order == NewOrder(c, customer_name, delivery_notes, t)
        order_history == Append(load_order_history(d), order) IN
    IF c = <<>>
    THEN [cart |-> c, doc |-> d, kind |-> "EmptyCart", order_id |-> None]
    ELSE IF outcome = "ok"
    THEN [cart |-> <<>>, doc |-> Saved(d, order_history, outcome),
          kind |-> "placed", order_id |-> Some(order.order_id)]
    ELSE [cart |-> c, doc |-> Saved(d, order_history, outcome),
          kind |-> "PersistenceFailure", order_id |-> None]

\* Index of the last order with this id, 0 when there is none
RECURSIVE LastMatch(_, _, _)
LastMatch(order_history, i, order_id) ==
    IF i < 1 THEN 0
    ELSE IF order_history[i].order_id = order_id THEN i
    ELSE LastMatch(order_history, i - 1, order_id)

\* get_order_status answering with the last order that has the id
GetOrderStatusLastMatch(d, order_id) ==
    LET order_history == load_order_history(d)
        m == IF IsNone(order_id) THEN 0
             ELSE LastMatch(order_history, Len(order_history), order_id[1])
        A(kind, id, status) ==
            [kind |-> kind, order_id |-> id, status |-> status] IN
    IF order_history = <<>>
    THEN A("NoOrders", None, "")
    ELSE IF IsNone(order_id)
    THEN A("status", Some(order_history[Len(order_history)].order_id),
           order_history[Len(order_history)].status)
    ELSE IF m # 0
    THEN A("status", Some(order_history[m].order_id), order_history[m].status)
    ELSE A("OrderNotFound", None, "")

\* get_order_status answering with the oldest order when no id is given
GetOrderStatusOldest(d, order_id) ==
    LET order_history == load_order_history(d)
        m == IF IsNone(order_id) THEN 0
             ELSE FirstMatch(order_history, 1, order_id[1])
        A(kind, id, status) ==
            [kind |-> kind, order_id |-> id, status |-> status] IN
    IF order_history = <<>>
    THEN A("NoOrders", None, "")
    ELSE IF IsNone(order_id)
    THEN A("status", Some(order_history[1].order_id), order_history[1].status)
    ELSE IF m # 0
    THEN A("status", Some(order_history[m].order_id), order_history[m].status)
    ELSE A("OrderNotFound", None, "")

\* get_order_status, lines 393-408: the kind of answer, and the order id and
\* the status it announces
GetOrderStatus(d, order_id) ==
    LET order_history == load_order_history(d)
        m == IF IsNone(order_id) THEN 0
             ELSE FirstMatch(order_history, 1, order_id[1])
        A(kind, id, status) ==
            [kind |-> kind, order_id |-> id, status |-> status] IN
    IF order_history = <<>>
    THEN A("NoOrders", None, "")
    ELSE IF IsNone(order_id)
    THEN A("status", Some(order_history[Len(order_history)].order_id),
           order_history[Len(order_history)].status)
    ELSE IF m # 0
    THEN A("status", Some(order_history[m].order_id), order_history[m].status)
    ELSE A("OrderNotFound", None, "")

\* The status set on every order of the list
SetStatusOfAll(order_history, m, new_status) ==
    [i \in 1..Len(order_history) |->
        [order_history[i] EXCEPT !.status = new_status]]

\* order["status"] = new_status on the first order with this id
SetStatus(order_history, m, new_status) ==
    [order_history EXCEPT ![m].status = new_status]

\* update_order_status.py storing whatever status it is given
UpdateOrderStatusAnyStatus(d, order_id, new_status, outcome) ==
    LET order_history == d.orders
        m == IF IsNone(order_id) THEN 0
             ELSE FirstMatch(order_history, 1, order_id[1])
        A(doc2, kind) == [doc |-> doc2, kind |-> kind] IN
    IF ~d.exists THEN A(d, "FileMissing")
    ELSE IF ~d.valid THEN A(d, "LoadError")
    ELSE IF IsNone(order_id)
    THEN A(d, IF order_history = <<>> THEN "NoOrders" ELSE "listed")
    ELSE IF IsNone(new_status) THEN A(d, "InvalidStatus")
    ELSE IF m = 0 THEN A(d, "OrderNotFound")
    ELSE A(Saved(d, SetStatus(order_history, m, new_status[1]), outcome),
           IF outcome = "ok" THEN "updated" ELSE "PersistenceFailure")

\* update_order_status.py, lines 14-77: the document it leaves and the kind
\* of answer
UpdateOrderStatus(d, order_id, new_status, outcome) ==
    LET order_history == d.orders
        m == IF IsNone(order_id) THEN 0
             ELSE FirstMatch(order_history, 1, order_id[1])
        A(doc2, kind) == [doc |-> doc2, kind |-> kind] IN
    IF ~d.exists THEN A(d, "FileMissing")
    ELSE IF ~d.valid THEN A(d, "LoadError")
    ELSE IF IsNone(order_id)
    THEN A(d, IF order_history = <<>> THEN "NoOrders" ELSE "listed")
    ELSE IF IsNone(new_status) \/ new_status[1] \notin StatusSet
    THEN A(d, "InvalidStatus")
    ELSE IF m = 0 THEN A(d, "OrderNotFound")
    ELSE A(Saved(d, SetStatus(order_history, m, new_status[1]), outcome),
           IF outcome = "ok" THEN "updated" ELSE "PersistenceFailure")

place_order(s, customer_name, delivery_notes) ==
    /\ pc[s] = "idle"
    /\ cart[s] # <<>> => Len(load_order_history(doc)) < MaxOrders
    /\ \E outcome \in IF cart[s] = <<>> THEN {"ok"} ELSE SaveOutcomes :
         LET r == PlaceOrder(cart[s], doc, now, customer_name, delivery_notes,
                             outcome) IN
         /\ cart' = [cart EXCEPT ![s] = r.cart]
         /\ doc' = r.doc
         /\ ret' = Ret("place_order", s, r.kind, r.order_id, "")
    /\ UNCHANGED <<now, pc, loc, acked, CATALOG>>

get_order_status(s, order_id) ==
    LET r == GetOrderStatus(doc, order_id) IN
    /\ pc[s] = "idle"
    /\ ret' = Ret("get_order_status", s, r.kind, r.order_id, r.status)
    /\ UNCHANGED <<cart, doc, now, pc, loc, acked, CATALOG>>

update_order_status(order_id, new_status) ==
    /\ pc[Operator] = "idle"
    /\ \E outcome \in IF UpdateOrderStatus(doc, order_id, new_status,
                                           "ok").kind = "updated"
                       THEN SaveOutcomes ELSE {"ok"} :
         LET r == UpdateOrderStatus(doc, order_id, new_status, outcome) IN
         /\ doc' = r.doc
         /\ ret' = Ret("update_order_status", Operator, r.kind,
                       IF r.kind = "updated" THEN order_id ELSE None,
                       IF r.kind = "updated" THEN new_status[1] ELSE "")
    /\ UNCHANGED <<cart, now, pc, loc, acked, CATALOG>>

\* Time passes
Tick ==
    /\ now < MaxClock
    /\ now' = now + 1
    /\ UNCHANGED <<cart, doc, ret, pc, loc, acked, CATALOG>>

----------------------------------------------------------------------------
(* The writers of the document run in steps.  A voice session is a job       *)
(* process of its own and update_order_status.py is another process: nothing *)
(* orders their file operations.  A writer loads the document, changes its   *)
(* list in memory, opens the file for writing, which empties it, and writes  *)
(* the list.  Here every open and write succeeds.                            *)

Frame(order_history, order_id, new_status) ==
    [order_history |-> order_history, order_id |-> order_id,
     new_status |-> new_status]

NoFrame == Frame(<<>>, None, "")

\* Placements and status updates, announced or under way
Announced(kind) == Len(SelectSeq(acked, LAMBDA a : a.kind = kind))
Placements == Announced("placed") + Cardinality({s \in Sessions : pc[s] # "idle"})
Updates == Announced("updated") + (IF pc[Operator] # "idle" THEN 1 ELSE 0)

\* place_order up to line 372: the order is appended to the loaded list
place_order_load(s, customer_name, delivery_notes) ==
    LET order == NewOrder(cart[s], customer_name, delivery_notes, now)
        order_history == Append(load_order_history(doc), order) IN
    /\ pc[s] = "idle"
    /\ IF cart[s] = <<>>
       THEN /\ ret' = Ret("place_order", s, "EmptyCart", None, "")
            /\ UNCHANGED <<pc, loc>>
       ELSE /\ Placements < MaxOrders
            /\ loc' = [loc EXCEPT
                         ![s] = Frame(order_history, Some(order.order_id), "")]
            /\ pc' = [pc EXCEPT ![s] = "open"]
            /\ UNCHANGED ret
    /\ UNCHANGED <<cart, doc, now, acked, CATALOG>>

\* update_order_status.py up to line 67: the status is set in the loaded list
update_order_status_load(order_id, new_status) ==
    LET r == UpdateOrderStatus(doc, order_id, new_status, "ok")
        m == FirstMatch(doc.orders, 1, order_id[1]) IN
    /\ pc[Operator] = "idle"
    /\ IF r.kind # "updated"
       THEN /\ ret' = Ret("update_order_status", Operator, r.kind, None, "")
            /\ UNCHANGED <<pc, loc>>
       ELSE /\ Updates < MaxUpdates
            /\ loc' = [loc EXCEPT
                         ![Operator] =
                             Frame(SetStatus(doc.orders, m, new_status[1]),
                                   order_id, new_status[1])]
            /\ pc' = [pc EXCEPT ![Operator] = "open"]
            /\ UNCHANGED ret
    /\ UNCHANGED <<cart, doc, now, acked, CATALOG>>

\* open(..., "w"), line 55 of agent.py and line 71 of update_order_status.py
save_open(p) ==
    /\ pc[p] = "open"
    /\ doc' = Truncated
    /\ pc' = [pc EXCEPT ![p] = "dump"]
    /\ UNCHANGED <<cart, now, ret, loc, acked, CATALOG>>

\* json.dump and the rest of place_order: the cart is cleared and the
\* success announced
place_order_dump(s) ==
    LET order_history == loc[s].order_history
        order == order_history[Len(order_history)] IN
    /\ pc[s] = "dump"
    /\ doc' \in Overwritten(doc, order_history)
    /\ cart' = [cart EXCEPT ![s] = <<>>]
    /\ ret' = Ret("place_order", s, "placed", loc[s].order_id, "")
    /\ acked' = Append(acked, [kind |-> "placed", order |-> order])
    /\ pc' = [pc EXCEPT ![s] = "idle"]
    /\ loc' = [loc EXCEPT ![s] = NoFrame]
    /\ UNCHANGED <<now, CATALOG>>

\* json.dump and the rest of update_order_status.py
update_order_status_dump ==
    /\ pc[Operator] = "dump"
    /\ doc' \in Overwritten(doc, loc[Operator].order_history)
    /\ ret' = Ret("update_order_status", Operator, "updated",
                  loc[Operator].order_id, loc[Operator].new_status)
    /\ acked' = Append(acked, [kind |-> "updated",
                                order_id |-> loc[Operator].order_id[1],
                                status |-> loc[Operator].new_status])
    /\ pc' = [pc EXCEPT ![Operator] = "idle"]
    /\ loc' = [loc EXCEPT ![Operator] = NoFrame]
    /\ UNCHANGED <<cart, now, CATALOG>>

----------------------------------------------------------------------------

Init ==
    /\ cart = [s \in Sessions |-> <<>>]
    /\ doc = Document(FALSE, FALSE, <<>>)
    /\ now = 0
    /\ ret = NoRet
    /\ pc = [p \in Procs |-> "idle"]
    /\ loc = [p \in Procs |-> NoFrame]
    /\ acked = <<>>
    /\ CATALOG \in {load_catalog(TRUE), load_catalog(FALSE)}

CartNext ==
    \E s \in Sessions :
        \/ \E id \in ItemIdArgs, q \in QtyArgs : add_to_cart(s, id, q)
        \/ \E id \in ItemIdArgs : remove_from_cart(s, id)
        \/ \E id \in ItemIdArgs, q \in QtyArgs : update_quantity(s, id, q)
        \/ view_cart(s)
        \/ \E key \in RecipeKeyArgs : add_recipe_items(s, key)

SpecCart == Init /\ [][CartNext]_vars

\* The queries: the texts of at most MaxQueryLen of these characters
QueryChars == {"b", "B", "r", "e", "E"}
QueryArgs == UNION {[1..n -> QueryChars] : n \in 0..MaxQueryLen}

SearchNext == \E s \in Sessions, query \in QueryArgs : search_items(s, query)

SpecSearch == Init /\ [][SearchNext]_vars

\* Arguments of the order engine's callers
NameArgs == {<<None, Some("Ring the bell")>>}
OrderIdArgs == {None} \cup {Some(OrderId(t)) : t \in 0..MaxClock}
StatusArgs == {None, Some("received"), Some("delivered"), Some("cancelled")}

\* Units in a cart
RECURSIVE Units(_, _)
Units(c, i) == IF i > Len(c) THEN 0 ELSE c[i].quantity + Units(c, i + 1)

Next ==
    \/ \E id \in ItemIdArgs, q \in 1..MaxQty :
          add_to_cart(1, id, q) /\ Units(cart'[1], 1) <= MaxUnits
    \/ \E id \in ItemIdArgs : remove_from_cart(1, id)
    \/ \E id \in ItemIdArgs, q \in 0..MaxQty :
          update_quantity(1, id, q) /\ Units(cart'[1], 1) <= MaxUnits
    \/ \E n \in NameArgs : place_order(1, n[1], n[2])
    \/ \E id \in OrderIdArgs : get_order_status(1, id)
    \/ \E id \in OrderIdArgs, st \in StatusArgs : update_order_status(id, st)
    \/ Tick

Spec == Init /\ [][Next]_vars

\* A session that calls add_to_cart with any of the quantities and places
\* orders
AnyQtyNext ==
    \/ \E id \in {"g001", "x999"}, q \in QtyArgs : add_to_cart(1, id, q)
    \/ \E n \in NameArgs : place_order(1, n[1], n[2])
    \/ Tick

SpecAnyQty == Init /\ [][AnyQtyNext]_vars

\* Every operation of a session and of the operator, each handler in one
\* step
AllQueryArgs == {<<>>, <<"b">>}
AllOrderIdArgs == {None, Some(OrderId(0))}
AllStatusArgs == {None, Some("delivered")}

AllNext ==
    \/ \E query \in AllQueryArgs : search_items(1, query)
    \/ \E id \in ItemIdArgs, q \in 1..MaxQty :
          add_to_cart(1, id, q) /\ Units(cart'[1], 1) <= MaxUnits
    \/ \E id \in ItemIdArgs : remove_from_cart(1, id)
    \/ \E id \in ItemIdArgs, q \in 0..MaxQty :
          update_quantity(1, id, q) /\ Units(cart'[1], 1) <= MaxUnits
    \/ view_cart(1)
    \/ \E key \in RecipeKeyArgs :
          add_recipe_items(1, key) /\ Units(cart'[1], 1) <= MaxUnits
    \/ \E n \in NameArgs : place_order(1, n[1], n[2])
    \/ \E id \in AllOrderIdArgs : get_order_status(1, id)
    \/ \E id \in AllOrderIdArgs, st \in AllStatusArgs :
          update_order_status(id, st)
    \/ Tick

SpecAll == Init /\ [][AllNext]_vars

\* Each session orders its own item
ItemOf(s) == IF s = 1 THEN "g001" ELSE "b001"

ConcNext ==
    \/ \E s \in Sessions :
          \/ cart[s] = <<>> /\ add_to_cart(s, ItemOf(s), 1)
          \/ place_order_load(s, None, None)
          \/ save_open(s)
          \/ place_order_dump(s)
          \/ get_order_status(s, None)
    \/ update_order_status_load(Some(OrderId(0)), Some("delivered"))
    \/ save_open(Operator)
    \/ update_order_status_dump
    \/ Tick

SpecConc == Init /\ [][ConcNext]_vars

----------------------------------------------------------------------------
(* Claims about the cart engine, under SpecCart *)

QtyOf(c, item_id) == IF InCart(c, item_id) THEN LineOf(c, item_id).quantity ELSE 0
LinesOf(c, item_id) == {i \in 1..Len(c) : c[i].id = item_id}

\* C6: every line in every cart has quantity >= 1, whatever integer
\* quantities add_to_cart and update_quantity are called with.
C6_LineQuantitiesPositive ==
    \A s \in Sessions : \A i \in 1..Len(cart[s]) : cart[s][i].quantity >= 1

\* C9: add_to_cart on an item of the catalog leaves exactly one line for it,
\* and that line's quantity is the quantity the cart held for the item (0
\* when it had no line) plus the requested quantity; so along any run of
\* add_to_cart calls the line holds the sum of the requested quantities.
C9_AddAccumulates ==
    \A s \in Sessions, id \in ItemIdArgs, q \in QtyArgs :
        FindItem(id).found =>
            LET r == AddToCart(cart[s], id, q) IN
            /\ r.kind = "ok"
            /\ Cardinality(LinesOf(r.cart, id)) = 1
            /\ QtyOf(r.cart, id) = QtyOf(cart[s], id) + q

\* A second add_to_cart on the same item has returned and the line holds the
\* sum of two requests
C9_Witness ==
    /\ ret.op = "add_to_cart" /\ ret.kind = "ok"
    /\ InCart(cart[ret.who], "g001")
    /\ QtyOf(cart[ret.who], "g001") = MaxQty

\* C10: update_quantity with a quantity <= 0 leaves the cart remove_from_cart
\* leaves and gives the same kind of answer, whether or not the item is in
\* the cart.
C10_UpdateNonPositiveIsRemove ==
    \A s \in Sessions, id \in ItemIdArgs, q \in QtyArgs :
        q <= 0 => UpdateQuantity(cart[s], id, q) = RemoveFromCart(cart[s], id)

\* update_quantity with a quantity <= 0 has just removed a line and another
\* line is still in the cart
C10_Witness ==
    /\ ret.op = "update_quantity" /\ ret.kind = "removed"
    /\ cart[ret.who] # <<>>

\* C11: what view_cart has just reported is the sum of price x quantity over
\* the lines the cart holds now, whatever operations came before, and it
\* reports the empty cart, as an answer of its own, exactly when the cart has
\* no lines.
C11_ViewCartTotal ==
    ret.op = "view_cart" =>
        LET c == cart[ret.who] IN
        /\ ret.kind \in {"empty", "cart"}
        /\ ret.kind = "empty" <=> c = <<>>
        /\ ret.kind = "cart" =>
              /\ ret.lines = Len(c)
              /\ ret.total =
                    LET RECURSIVE Sum(_)
                        Sum(i) == IF i > Len(c) THEN 0
                                  ELSE c[i].item.price * c[i].quantity
                                       + Sum(i + 1)
                    IN  Sum(1)

\* view_cart has just reported a cart of two lines, one of them with two
\* units, after a line was changed
C11_Witness ==
    /\ ret.op = "view_cart" /\ ret.kind = "cart"
    /\ Len(cart[ret.who]) = 2
    /\ \E i \in 1..2 : cart[ret.who][i].quantity = MaxQty
    /\ \E i \in 1..2 : cart[ret.who][i].quantity = 1

\* The ids of the items of the catalog
CatalogIds ==
    UNION {{Categories[c].items[i].id : i \in 1..Len(Categories[c].items)} :
               c \in 1..Len(Categories)}

\* The positions of a recipe's list whose item id is one of the catalog
Resolved(item_ids) == {i \in 1..Len(item_ids) : item_ids[i] \in CatalogIds}

\* The name the catalog gives to an item id
NameOf(item_id) ==
    LET HasIt(k) == \E i \in 1..Len(Categories[k].items) :
                        Categories[k].items[i].id = item_id
        k == CHOOSE k \in 1..Len(Categories) : HasIt(k)
        i == CHOOSE i \in 1..Len(Categories[k].items) :
                 Categories[k].items[i].id = item_id
    IN  Categories[k].items[i].name

\* C17: add_recipe_items with a recipe key of the catalog raises the quantity
\* of every item by the number of times its id occurs in the recipe's list,
\* if the id is one of the catalog, and by nothing otherwise; an item that
\* had no line gets one line; the lines the cart had stay at their places
\* with their items; and the names returned are those of the occurrences
\* that resolved, in the order of the list.
C17_RecipeAddsOneEach ==
    \A s \in Sessions, key \in RecipeKeyArgs :
        key \in DOMAIN Get(CATALOG, "recipes", EmptyDict) =>
            LET c == cart[s]
                item_ids == CATALOG.recipes[key].items
                r == AddRecipeItems(c, key)
                Occurrences(id) ==
                    Cardinality({i \in Resolved(item_ids) : item_ids[i] = id})
                ids == ItemIdArgs \cup CatalogIds \cup CartIds(c) IN
            /\ r.kind = IF Resolved(item_ids) = {} THEN "none_added"
                        ELSE "added"
            /\ \A id \in ids :
                  /\ QtyOf(r.cart, id) = QtyOf(c, id) + Occurrences(id)
                  /\ Cardinality(LinesOf(r.cart, id)) =
                        IF InCart(c, id) \/ Occurrences(id) > 0 THEN 1 ELSE 0
            /\ CartIds(r.cart) \subseteq ids
            /\ Len(r.cart) >= Len(c)
            /\ \A i \in 1..Len(c) :
                  [r.cart[i] EXCEPT !.quantity = 0] =
                      [c[i] EXCEPT !.quantity = 0]
            /\ Len(r.added) = Cardinality(Resolved(item_ids))
            /\ \A k \in 1..Len(r.added) :
                  \E i \in Resolved(item_ids) :
                      /\ Cardinality({j \in Resolved(item_ids) : j <= i}) = k
                      /\ r.added[k] = NameOf(item_ids[i])

\* add_recipe_items has just added the two items of a recipe to a cart that
\* held one of them: that line has two units, the new line one
C17_Witness ==
    /\ ret.op = "add_recipe_items" /\ ret.kind = "added"
    /\ Len(ret.added) = 2 /\ ret.added[1] # ret.added[2]
    /\ Len(cart[ret.who]) = 2
    /\ cart[ret.who][1].quantity = 2
    /\ cart[ret.who][2].quantity = 1

\* The answers of the cart operations that are failures
CartFailures == {"ItemNotFound", "ItemNotInCart", "RecipeNotFound"}

\* C18: every cart operation that fails leaves the cart as it was and answers
\* with its failure: add_to_cart with an id the catalog does not have (every
\* id, when the catalog failed to load) answers ItemNotFound,
\* remove_from_cart and update_quantity with an id the cart does not hold
\* answer ItemNotInCart, add_recipe_items with a key the catalog does not
\* have answers RecipeNotFound; and a step that answers with one of these
\* changes no cart.
C18_FailedCartOpChangesNothing ==
    /\ [](\A s \in Sessions :
            LET c == cart[s] IN
            /\ CATALOG = EmptyDict => CatalogIds = {}
            /\ \A id \in ItemIdArgs, q \in QtyArgs :
                  /\ id \notin CatalogIds =>
                        AddToCart(c, id, q) = Outcome(c, "ItemNotFound")
                  /\ ~InCart(c, id) =>
                        /\ RemoveFromCart(c, id) = Outcome(c, "ItemNotInCart")
                        /\ UpdateQuantity(c, id, q)
                              = Outcome(c, "ItemNotInCart")
                  /\ AddToCart(c, id, q).kind \in CartFailures
                        => AddToCart(c, id, q).cart = c
                  /\ RemoveFromCart(c, id).kind \in CartFailures
                        => RemoveFromCart(c, id).cart = c
                  /\ UpdateQuantity(c, id, q).kind \in CartFailures
                        => UpdateQuantity(c, id, q).cart = c
            /\ \A key \in RecipeKeyArgs :
                  LET r == AddRecipeItems(c, key) IN
                  /\ key \notin DOMAIN Get(CATALOG, "recipes", EmptyDict) =>
                        r.kind = "RecipeNotFound"
                  /\ r.kind \in CartFailures => r.cart = c)
    /\ [][ret'.kind \in CartFailures => cart' = cart]_vars

\* add_to_cart has just answered ItemNotFound to a session whose cart holds
\* two lines
C18_Witness ==
    /\ ret.op = "add_to_cart" /\ ret.kind = "ItemNotFound"
    /\ Len(cart[ret.who]) = 2

\* C21: update_quantity with a quantity q >= 1 on an item the cart holds
\* answers that it updated the line and leaves that line with quantity q,
\* whatever quantity it had, the cart being otherwise as it was; applied
\* again with the same arguments it leaves the same cart.
C21_UpdateOverwrites ==
    \A s \in Sessions, id \in ItemIdArgs, q \in 1..MaxQty :
        InCart(cart[s], id) =>
            LET c == cart[s]
                r == UpdateQuantity(c, id, q) IN
            /\ r.kind = "updated"
            /\ Len(r.cart) = Len(c)
            /\ \A i \in 1..Len(c) :
                  r.cart[i] = IF c[i].id = id THEN [c[i] EXCEPT !.quantity = q]
                              ELSE c[i]
            /\ UpdateQuantity(r.cart, id, q) = r

\* update_quantity has just set a line to one unit in a cart of two lines
\* whose other line has another quantity
C21_Witness ==
    /\ ret.op = "update_quantity" /\ ret.kind = "updated"
    /\ Len(cart[ret.who]) = 2
    /\ \E i, j \in 1..2 :
          cart[ret.who][i].quantity = 1 /\ cart[ret.who][j].quantity # 1

\* The lines of a cart for the items other than item_id, in their order
OtherLines(c, item_id) == SelectSeq(c, LAMBDA l : l.id # item_id)

\* C23: add_to_cart, remove_from_cart and update_quantity called with an
\* item id leave every line of the cart for another item as it was, with its
\* item, category and quantity, and add no line for another item.
C23_OtherLinesUntouched ==
    \A s \in Sessions, id \in ItemIdArgs, q \in QtyArgs :
        LET c == cart[s] IN
        /\ OtherLines(AddToCart(c, id, q).cart, id) = OtherLines(c, id)
        /\ OtherLines(RemoveFromCart(c, id).cart, id) = OtherLines(c, id)
        /\ OtherLines(UpdateQuantity(c, id, q).cart, id) = OtherLines(c, id)

\* add_to_cart has just raised one line of a cart of two lines to two units
\* while the other line has one
C23_Witness ==
    /\ ret.op = "add_to_cart" /\ ret.kind = "ok"
    /\ Len(cart[ret.who]) = 2
    /\ \E i, j \in 1..2 :
          cart[ret.who][i].quantity = 2 /\ cart[ret.who][j].quantity = 1

----------------------------------------------------------------------------
(* Claims about the order engine, under Spec *)

\* The sum of price x quantity over the lines of a cart
RECURSIVE CartTotal(_, _)
CartTotal(c, i) ==
    IF i > Len(c) THEN 0
    ELSE c[i].item.price * c[i].quantity + CartTotal(c, i + 1)

\* The order, whatever its status
SansStatus(o) == [o EXCEPT !.status = "received"]

\* h2 keeps every order of h at its place, whatever the statuses
KeepsOrders(h, h2) ==
    /\ Len(h2) >= Len(h)
    /\ \A i \in 1..Len(h) : SansStatus(h2[i]) = SansStatus(h[i])

\* C2: a place_order whose save fails leaves the cart and the persisted
\* document as they were and answers with a failure.
C2_FailedPlaceOrderChangesNothing ==
    [][\A s \in Sessions, n \in NameArgs :
          (/\ ret'.op = "place_order" /\ ret'.kind = "PersistenceFailure"
           /\ place_order(s, n[1], n[2]))
          => (cart' = cart /\ doc' = doc)]_vars

\* C3: a successful place_order on a non-empty cart appends one order to the
\* history: one order more, the earlier ones unchanged at their places, the
\* new one last, its total the sum of price x quantity over the cart lines,
\* its items the cart lines in order with their quantities and prices.
C3_PlaceOrderAppendsOne ==
    [][\A s \in Sessions, n \in NameArgs :
          (/\ ret'.op = "place_order" /\ ret'.kind = "placed"
           /\ place_order(s, n[1], n[2]))
          => LET h == load_order_history(doc)
                 h2 == load_order_history(doc')
                 c == cart[s]
                 o == h2[Len(h2)] IN
             /\ c # <<>>
             /\ Len(h2) = Len(h) + 1
             /\ SubSeq(h2, 1, Len(h)) = h
             /\ o.total = CartTotal(c, 1)
             /\ Len(o.items) = Len(c)
             /\ \A i \in 1..Len(c) :
                   /\ o.items[i].id = c[i].id
                   /\ o.items[i].quantity = c[i].quantity
                   /\ o.items[i].price = c[i].item.price]_vars

\* A second order has just been appended, with two items in it
C3_Witness ==
    /\ ret.op = "place_order" /\ ret.kind = "placed"
    /\ doc.valid /\ Len(doc.orders) = 2
    /\ Len(doc.orders[2].items) = 2

\* C4: no two orders of the history have the same order_id.
C4_OrderIdsUnique ==
    LET h == load_order_history(doc) IN
    \A i, j \in 1..Len(h) : h[i].order_id = h[j].order_id => i = j

\* C5: the history is append-only: every order of the persisted history is
\* still there, at its place, after every step.
C5_HistoryAppendOnly ==
    [][KeepsOrders(load_order_history(doc), load_order_history(doc'))]_vars

\* C7: place_order on an empty cart answers EmptyCart and leaves the cart
\* and the history document as they were.
C7_EmptyCartRejected ==
    [][\A s \in Sessions, n \in NameArgs :
          (/\ ret'.op = "place_order" /\ cart[s] = <<>>
           /\ place_order(s, n[1], n[2]))
          => (ret'.kind = "EmptyCart" /\ cart' = cart /\ doc' = doc)]_vars

\* place_order has just been refused on an empty cart while the history
\* holds an order
C7_Witness ==
    /\ ret.op = "place_order" /\ ret.kind = "EmptyCart"
    /\ load_order_history(doc) # <<>>

\* C8: right after a successful place_order the session's cart has no lines,
\* and a second place_order then answers EmptyCart and leaves the document
\* as it is, so the same lines are not recorded twice.
C8_PlacedThenEmpty ==
    (ret.op = "place_order" /\ ret.kind = "placed") =>
        /\ cart[ret.who] = <<>>
        /\ \A n \in NameArgs, o \in SaveOutcomes :
              LET r == PlaceOrder(cart[ret.who], doc, now, n[1], n[2], o) IN
              r.kind = "EmptyCart" /\ r.doc = doc /\ r.cart = <<>>

\* An order has just been placed from a cart of two lines
C8_Witness ==
    /\ ret.op = "place_order" /\ ret.kind = "placed"
    /\ doc.valid /\ Len(doc.orders[Len(doc.orders)].items) = 2

\* Every order of the history has one of the five statuses
StatusesDefined(h) == \A i \in 1..Len(h) : h[i].status \in StatusSet

\* Some order of the history has this id
Matches(h, order_id) == \E i \in 1..Len(h) : h[i].order_id = order_id

\* C12: update_order_status on a readable history, given an order id, fails
\* with InvalidStatus when the new status is missing or is not one of the
\* five, and with OrderNotFound when the status is one of the five and no
\* order has the id; a call that fails in either way leaves the persisted
\* document as it was; and every order of the history has one of the five
\* statuses in every state.
C12_FailedUpdateChangesNothing ==
    /\ StatusesDefined(load_order_history(doc))
    /\ \A id \in OrderIdArgs, st \in StatusArgs, o \in SaveOutcomes :
          LET r == UpdateOrderStatus(doc, id, st, o) IN
          /\ (doc.exists /\ doc.valid /\ ~IsNone(id)) =>
                IF IsNone(st) \/ st[1] \notin StatusSet
                THEN r.kind = "InvalidStatus"
                ELSE ~Matches(doc.orders, id[1]) => r.kind = "OrderNotFound"
          /\ r.kind \in {"InvalidStatus", "OrderNotFound"} => r.doc = doc

\* update_order_status has just refused a status while the history holds an
\* order whose status was changed before
C12_Witness ==
    /\ ret.op = "update_order_status" /\ ret.kind = "InvalidStatus"
    /\ \E i \in 1..Len(load_order_history(doc)) :
          load_order_history(doc)[i].status = "delivered"

\* C13: an order of the history keeps every field other than status for as
\* long as it is in the history: whatever the step, the orders that stay are
\* the same but for their status; a successful update_order_status changes
\* the status of one order with the given id and nothing else in the
\* history; a place_order changes no earlier order, status included.
C13_OrdersImmutable ==
    [][LET h == load_order_history(doc)
           h2 == load_order_history(doc')
           kept == {i \in 1..Len(h) : i <= Len(h2)} IN
       /\ \A i \in kept : SansStatus(h2[i]) = SansStatus(h[i])
       /\ (ret'.op = "update_order_status" /\ ret'.kind = "updated") =>
             \E m \in 1..Len(h) :
                 /\ h[m].order_id = ret'.order_id[1]
                 /\ h2 = [h EXCEPT ![m].status = ret'.status]
       /\ ret'.op = "place_order" => \A i \in kept : h2[i] = h[i]]_vars

\* A status has just been updated in a history of two orders, and the two
\* orders now differ in status
C13_Witness ==
    /\ ret.op = "update_order_status" /\ ret.kind = "updated"
    /\ Len(load_order_history(doc)) = 2
    /\ load_order_history(doc)[1].status # load_order_history(doc)[2].status

\* C14: when place_order has just announced an order id, and so before any
\* update of that order, get_order_status with that id answers with the
\* status received, whatever else the history holds.
C14_NewOrderIsReceived ==
    (ret.op = "place_order" /\ ret.kind = "placed") =>
        LET r == GetOrderStatus(doc, ret.order_id) IN
        r.kind = "status" /\ r.status = "received"

\* The first order of the history with this id
FirstWithId(h, order_id) ==
    h[CHOOSE i \in 1..Len(h) :
          /\ h[i].order_id = order_id
          /\ \A j \in 1..(i - 1) : h[j].order_id # order_id]

\* C15, as claimed: get_order_status with an order id that no order of the
\* history has answers OrderNotFound, whatever the history, the empty one
\* included; when orders have the id it answers with the status of the first
\* of them.
C15_UnknownIdNotFound ==
    \A id \in OrderIdArgs \ {None} :
        LET h == load_order_history(doc)
            r == GetOrderStatus(doc, id) IN
        IF Matches(h, id[1])
        THEN r.kind = "status" /\ r.status = FirstWithId(h, id[1]).status
        ELSE r.kind = "OrderNotFound"

\* C15, amended: get_order_status with an order id answers NoOrders when the
\* history is empty; when the history is not empty it answers OrderNotFound
\* if no order has the id, and otherwise with the id and the status of the
\* first order that has it.
C15_UnknownIdNotFoundUnlessEmpty ==
    \A id \in OrderIdArgs \ {None} :
        LET h == load_order_history(doc)
            r == GetOrderStatus(doc, id) IN
        IF h = <<>> THEN r.kind = "NoOrders"
        ELSE IF Matches(h, id[1])
        THEN /\ r.kind = "status" /\ r.order_id = id
             /\ r.status = FirstWithId(h, id[1]).status
        ELSE r.kind = "OrderNotFound"

\* get_order_status has just answered OrderNotFound
C15_Witness ==
    /\ ret.op = "get_order_status" /\ ret.kind = "OrderNotFound"
    /\ load_order_history(doc) # <<>>

\* C16: get_order_status without an order id answers NoOrders exactly when
\* the history is empty, and otherwise with the id and the status of the
\* last order of the history, the one placed most recently.
C16_LatestOrderStatus ==
    LET h == load_order_history(doc)
        r == GetOrderStatus(doc, None) IN
    /\ r.kind = "NoOrders" <=> h = <<>>
    /\ h # <<>> =>
          /\ r.kind = "status"
          /\ r.order_id = Some(h[Len(h)].order_id)
          /\ r.status = h[Len(h)].status
          /\ \A i \in 1..Len(h) : h[i].timestamp <= h[Len(h)].timestamp

\* get_order_status has just answered with the status of the second of two
\* orders, which the first one does not have
C16_Witness ==
    LET h == load_order_history(doc) IN
    /\ ret.op = "get_order_status" /\ ret.kind = "status"
    /\ Len(h) = 2
    /\ h[1].status # h[2].status
    /\ h[1].order_id = h[2].order_id
    /\ ret.status = h[2].status

\* C19: for every order of the history, whatever its status, and for each of
\* the five statuses, update_order_status called with the order's id and
\* that status succeeds when the save succeeds, and the order then has that
\* status: backwards moves and the status the order already has included.
C19_AnyStatusAnyTime ==
    LET h == load_order_history(doc) IN
    \A i \in 1..Len(h), st \in StatusSet :
        LET r == UpdateOrderStatus(doc, Some(h[i].order_id), Some(st), "ok") IN
        /\ r.kind = "updated"
        /\ load_order_history(r.doc)[i].status = st

\* The same in the states where no two orders share an id
C19_AnyStatusAnyTimeUniqueIds ==
    C4_OrderIdsUnique => C19_AnyStatusAnyTime

----------------------------------------------------------------------------
(* Claims about search, under SpecSearch *)

\* The items of the catalog with their categories, categories in the order
\* of the catalog and items in the order of their category
RECURSIVE CatalogFrom(_)
CatalogFrom(c) ==
    IF c > Len(Categories) THEN <<>>
    ELSE [i \in 1..Len(Categories[c].items) |->
             [item |-> Categories[c].items[i], category |-> Categories[c].name]]
         \o CatalogFrom(c + 1)

\* query is a substring of text, case apart
SubstringNoCase(query, text) ==
    \E i \in 0..(Len(text) - Len(query)) :
        \A k \in 1..Len(query) : Lower(text[i + k]) = Lower(query[k])

\* query is in the name, the brand or a tag of the item
Relevant(item, query) ==
    \/ SubstringNoCase(query, Chars(item.name))
    \/ "brand" \in DOMAIN item /\ SubstringNoCase(query, Chars(item.brand))
    \/ "tags" \in DOMAIN item
          /\ \E t \in 1..Len(item.tags) :
                 SubstringNoCase(query, Chars(item.tags[t]))

\* The items search is to return, with their categories
Expected(query) ==
    LET hits == SelectSeq(CatalogFrom(1), LAMBDA e : Relevant(e.item, query))
    IN  [i \in 1..Len(hits) |->
            [id |-> hits[i].item.id, category |-> hits[i].category]]

\* The items search_items has listed, with their categories
Listed(shown) ==
    [i \in 1..Len(shown) |-> [id |-> shown[i].id, category |-> shown[i].category]]

\* C20, as claimed: search_items returns every item of the catalog that has
\* the query as a substring, case apart, of its name, its brand or one of its
\* tags, and no other, each with its category, in the order of the catalog.
C20_SearchReturnsAllMatches ==
    ret.op = "search_items" => Listed(ret.shown) = Expected(ret.query)

\* C20, amended: search_items finds those items and no other, says how many
\* they are, and lists the first MaxShown of them, each with its category,
\* in the order of the catalog; it answers that it found nothing exactly when
\* there is none.
C20_SearchListsFirstMatches ==
    ret.op = "search_items" =>
        LET e == Expected(ret.query) IN
        /\ ret.kind = IF e = <<>> THEN "none" ELSE "found"
        /\ ret.count = Len(e)
        /\ Listed(ret.shown) =
              SubSeq(e, 1, IF Len(e) < MaxShown THEN Len(e) ELSE MaxShown)
        /\ \A i \in 1..Len(ret.shown) :
              \E k \in 1..Len(CatalogFrom(1)) :
                  LET it == CatalogFrom(1)[k].item IN
                  /\ it.id = ret.shown[i].id
                  /\ it.name = ret.shown[i].name
                  /\ it.price = ret.shown[i].price

\* search_items has just found more items than it lists, for a query in
\* capitals
C20_Witness ==
    /\ ret.op = "search_items" /\ ret.kind = "found"
    /\ ret.query = <<"E">>
    /\ ret.count > MaxShown
    /\ Len(ret.shown) = MaxShown

\* C22: every order of the history has at least one item, every item of it
\* has a quantity >= 1 and a subtotal that is its price x its quantity, and
\* the order's total is the sum of the subtotals of its items.
C22_OrdersWellFormed ==
    LET h == load_order_history(doc) IN
    \A k \in 1..Len(h) :
        /\ Len(h[k].items) >= 1
        /\ \A i \in 1..Len(h[k].items) :
              /\ h[k].items[i].quantity >= 1
              /\ h[k].items[i].subtotal
                    = h[k].items[i].price * h[k].items[i].quantity
        /\ h[k].total =
              LET RECURSIVE Sum(_)
                  Sum(i) == IF i > Len(h[k].items) THEN 0
                            ELSE h[k].items[i].subtotal + Sum(i + 1)
              IN  Sum(1)

\* The same but for the quantities, which may be any integer
C22_OrdersWellFormedButQuantities ==
    LET h == load_order_history(doc) IN
    \A k \in 1..Len(h) :
        /\ Len(h[k].items) >= 1
        /\ \A i \in 1..Len(h[k].items) :
              h[k].items[i].subtotal
                  = h[k].items[i].price * h[k].items[i].quantity
        /\ h[k].total =
              LET RECURSIVE Sum(_)
                  Sum(i) == IF i > Len(h[k].items) THEN 0
                            ELSE h[k].items[i].subtotal + Sum(i + 1)
              IN  Sum(1)

----------------------------------------------------------------------------
(* Claims about all the operations together, under SpecAll *)

\* The step is one of this handler: every handler returns its own answer and
\* leaves the clock alone, and the passing of time leaves the answer alone
Did(op) == now' = now /\ ret'.op = op

CartOps == {"add_to_cart", "remove_from_cart", "update_quantity",
            "add_recipe_items"}

\* C24: only place_order and update_order_status called with an order id
\* change the history document, and only add_to_cart, remove_from_cart,
\* update_quantity, add_recipe_items and a place_order that succeeds change a
\* cart: search_items, view_cart, get_order_status and update_order_status
\* called without an order id leave the carts and the document as they were,
\* and no cart operation changes the document.
C24_WhoChangesWhat ==
    [][LET CartOp == \E op \in CartOps : Did(op)
           WithId == \E id \in AllOrderIdArgs \ {None}, st \in AllStatusArgs :
                         update_order_status(id, st)
           WithoutId == \E st \in AllStatusArgs : update_order_status(None, st)
           Reads == \/ Did("search_items")
                    \/ Did("view_cart")
                    \/ Did("get_order_status")
                    \/ WithoutId
       IN  /\ (doc' # doc) => (Did("place_order") \/ WithId)
           /\ (cart' # cart) =>
                  (CartOp \/ (Did("place_order") /\ ret'.kind = "placed"))
           /\ Reads => UNCHANGED <<cart, doc>>
           /\ CartOp => (doc' = doc)
      ]_vars

\* update_order_status without an order id has listed a history while the
\* session's cart holds a line
C24_Witness ==
    /\ ret.op = "update_order_status" /\ ret.kind = "listed"
    /\ cart[1] # <<>>
    /\ load_order_history(doc) # <<>>

----------------------------------------------------------------------------
(* Claims about concurrent writers, under SpecConc *)

Quiescent == \A p \in Procs : pc[p] = "idle"

\* The order is in the history, whatever its status
InHistory(h, o) == \E j \in 1..Len(h) : SansStatus(h[j]) = SansStatus(o)

\* The order with this id has this status in the history
HasStatus(h, order_id, status) ==
    LET m == FirstMatch(h, 1, order_id) IN
    m # 0 /\ h[m].status = status

\* C1: once the writers have finished, every order whose placement was
\* announced as a success is in the history, and every status update that
\* was announced as a success shows in the stored order.
C1_NoLostUpdate ==
    Quiescent =>
        \A i \in 1..Len(acked) :
            IF acked[i].kind = "placed"
            THEN InHistory(load_order_history(doc), acked[i].order)
            ELSE HasStatus(load_order_history(doc), acked[i].order_id,
                           acked[i].status)

\* C25: get_order_status running while a writer is saving the document never
\* finds fewer orders than were stored before the save began: once an order
\* has been stored and its placement announced, get_order_status answers with
\* a status, never with NoOrders or OrderNotFound.
C25_ReaderSeesPersistedOrders ==
    [][\A s \in Sessions :
          (acked # <<>> /\ get_order_status(s, None)) => ret'.kind = "status"
      ]_vars

====
